---- MODULE Spec2Model ----
(***************************************************************************)
(* Model of notebooks of openvino_notebooks:                               *)
(*   - BinaryF1 and KitsDataLoader of the CT-scan quantization notebook,   *)
(*   - the POT evaluation cell that shares one BinaryF1 through an engine, *)
(*   - validate() and the cell order of the BERT quantization notebook,    *)
(*   - the AsyncInferQueue loop of the live-inference notebook.            *)
(*   - the timing cells of the BERT and PaddlePaddle notebooks,            *)
(*   - the background replacement of the background-removal notebook,      *)
(*   - run_style_transfer of the style-transfer notebook,                  *)
(*   - result_to_string of the license-plate notebook.                     *)
(* Each part has its own specification over the shared variables; the     *)
(* variables of the other parts stay at their idle values.                 *)
(***************************************************************************)
EXTENDS Integers, Sequences, FiniteSets, TLC

\* ------------------------------------------------------------------ bounds
\* pixels per mask / per model output
NPix == 2
\* update calls between two resets of a BinaryF1
MaxUpdates == 2
\* items of the BERT data source
MaxData == 2
\* items of the data loader the POT engine evaluates on
MaxItems == 1
\* images of the case shown by the live-inference notebook
MaxImages == 4
\* infer requests the AsyncInferQueue may create
MaxJobs == 2
\* mask files per case directory
MaxSlices == 1
\* background pixels around the foreground block of a synthetic mask
MaxPad == 2
\* Model objects the BERT notebook may hold when the quantization cell is run again
MaxModels == 6
\* ticks of the clock
MaxTime == 3
\* ticks one statement may take
MaxStep == 1

VARIABLES
    \* BinaryF1 instance under test, a twin constructed at the last reset, the last call
    metric, twin, was_reset, dirty_reset, updates, call,
    \* POT comparison cell: position, data loader, loop index, results, ghosts
    epc, loader_masks, eidx, original_metric, quantized_metric, own, left_by_original,
    \* BERT notebook: cell position, files, Model objects and the names bound to
    \* them, data source, model outputs, the running validate call, printed scores
    bpc, files, models, model, quantized_model, data_source, predictions,
    v_precision, v_idx, v_added, fed, printed,
    \* live-inference notebook: position, image list, frame buffer, the queue's
    \* infer requests, submission index, callback log, what stop_time saw
    apc, image_paths, framebuf, next_frame_id, requests, frame_i, callbacks,
    returned, at_stop,
    \* KitsDataLoader: directories, the loader built last, the one built
    \* before it, the last call
    dirs, loader, previous, lcall,
    \* POT quantization cell: position, settings, files, Model objects and the
    \* names bound to them, the path returned by save_model, the calls made
    qpc, ir_path, disk, heap, ir_model, compressed_model,
    compressed_model_path, workflow,
    \* the clock, the time stamps and the report of the live-inference cell
    now, timers, report,
    \* BERT benchmark cell: position, prepared input, loop counter, the inputs
    \* the running loop has used, its time stamps, the printed lines
    kpc, inputs, iterations, ran, start, end, elapsed, printed_sps,
    \* live-inference notebook: the network of segmentation_model, the compiled
    \* model, the output tensor of every infer request
    net, compiled_model, tensors,
    \* PaddlePaddle notebook, timing cells: position, the image, the preprocessed
    \* input, the timed region that is open, the measurements printed
    cpc, image, input_image, region, measured,
    \* background-removal notebook, one pixel of one channel: position, the image,
    \* the rounded segmentation result, the image with the background removed, the
    \* resized background file as read, background_image, new_image
    gpc, image_px, resized_result, bg_removed_result, wall, background_image, new_image,
    \* style-transfer notebook, run_style_transfer: position, arguments, the player,
    \* the cv2 windows, the exception in flight, the deque, the inference durations of
    \* all frames so far, the inference time and FPS drawn on the last frame
    spc, args, player, windows, exc, processing_times, durations, displayed,
    \* license-plate notebook, result_to_string: position, the flattened model
    \* output, the loop index, str_list, the returned string
    rpc, result, ridx, str_list, ans

metricVars == <<metric, twin, was_reset, dirty_reset, updates, call>>
evalVars == <<epc, loader_masks, eidx, original_metric, quantized_metric, own, left_by_original>>
bertVars == <<bpc, files, models, model, quantized_model, data_source, predictions,
              v_precision, v_idx, v_added, fed, printed>>
asyncVars == <<apc, image_paths, framebuf, next_frame_id, requests, frame_i, callbacks,
               returned, at_stop>>
loaderVars == <<dirs, loader, previous, lcall>>
potVars == <<qpc, ir_path, disk, heap, ir_model, compressed_model,
             compressed_model_path, workflow>>
timeVars == <<now, timers, report>>
benchVars == <<kpc, inputs, iterations, ran, start, end, elapsed, printed_sps>>
sharedVars == <<net, compiled_model, tensors>>
compareVars == <<cpc, image, input_image, region, measured>>
backgroundVars == <<gpc, image_px, resized_result, bg_removed_result, wall, background_image, new_image>>
styleVars == <<spc, args, player, windows, exc, processing_times, durations, displayed>>
plateVars == <<rpc, result, ridx, str_list, ans>>
vars == <<metricVars, evalVars, bertVars, asyncVars, loaderVars, potVars, timeVars, benchVars,
          sharedVars,
          compareVars,
          backgroundVars,
          styleVars,
          plateVars>>
\* what the actions of one part leave alone
outsideMetric == <<evalVars, bertVars, asyncVars, loaderVars, potVars, timeVars, benchVars,
    sharedVars, compareVars, backgroundVars, styleVars, plateVars>>
outsideEval == <<bertVars, asyncVars, loaderVars, potVars, timeVars, benchVars,
    sharedVars, compareVars, backgroundVars, styleVars, plateVars>>
outsidePot == <<bertVars, asyncVars, loaderVars, timeVars, benchVars,
    sharedVars, compareVars, backgroundVars, styleVars, plateVars>>
outsideBert == <<metricVars, evalVars, asyncVars, loaderVars, potVars, timeVars, benchVars,
    sharedVars, compareVars, backgroundVars, styleVars, plateVars>>
outsideAsync == <<metricVars, evalVars, bertVars, loaderVars, potVars, benchVars, compareVars, backgroundVars, styleVars, plateVars>>
outsideBench == <<metricVars, evalVars, bertVars, asyncVars, loaderVars, potVars,
    sharedVars, compareVars, backgroundVars, styleVars, plateVars>>
outsideLoader == <<metricVars, evalVars, bertVars, asyncVars, potVars, timeVars, benchVars,
    sharedVars, compareVars, backgroundVars, styleVars, plateVars>>

\* ------------------------------------------------------------ arithmetic
RECURSIVE GCD(_, _)
GCD(a, b) == IF b = 0 THEN a ELSE GCD(b, a % b)

\* A float is a record: kind "num" with the value n/d in lowest terms, or
\* "nan" / "inf" (numpy scalars), or "raise" (a Python exception left the call).
\* Rounding of IEEE arithmetic is not modelled: values are exact rationals.
Num(n, d) == LET g == GCD(n, d) IN [kind |-> "num", n |-> n \div g, d |-> d \div g]
NaN == [kind |-> "nan", n |-> 0, d |-> 1]
Inf == [kind |-> "inf", n |-> 0, d |-> 1]
ZeroDivisionError == [kind |-> "raise", n |-> 0, d |-> 1]
None == [kind |-> "none", n |-> 0, d |-> 1]

\* x / y. Python ints raise on a zero divisor; numpy scalars give nan or inf
\* (with a RuntimeWarning) instead.
Divide(x, y, numpy) ==
    IF x.kind = "raise" \/ y.kind = "raise" THEN ZeroDivisionError
    ELSE IF x.kind = "nan" \/ y.kind = "nan" THEN NaN
    ELSE IF x.kind = "inf" THEN (IF y.kind = "inf" THEN NaN ELSE Inf)
    ELSE IF y.kind = "inf" THEN Num(0, 1)
    ELSE IF y.n = 0 THEN (IF ~numpy THEN ZeroDivisionError
                          ELSE IF x.n = 0 THEN NaN ELSE Inf)
    ELSE Num(x.n * y.d, x.d * y.n)

Times(x, y) ==
    IF x.kind = "raise" \/ y.kind = "raise" THEN ZeroDivisionError
    ELSE IF x.kind = "nan" \/ y.kind = "nan" THEN NaN
    ELSE IF x.kind = "inf" \/ y.kind = "inf"
         THEN (IF (x.kind = "num" /\ x.n = 0) \/ (y.kind = "num" /\ y.n = 0) THEN NaN ELSE Inf)
    ELSE Num(x.n * y.n, x.d * y.d)

Plus(x, y) ==
    IF x.kind = "raise" \/ y.kind = "raise" THEN ZeroDivisionError
    ELSE IF x.kind = "nan" \/ y.kind = "nan" THEN NaN
    ELSE IF x.kind = "inf" \/ y.kind = "inf" THEN Inf
    ELSE Num(x.n * y.d + y.n * x.d, x.d * y.d)

\* ---------------------------------------------------------------- BinaryF1
\* Masks are sequences of NPix pixels; a label pixel is 0 or 1, a model output
\* pixel is a logit.
Pixels == 1..NPix
Labels == [Pixels -> {0, 1}]
Logits == {-1, 0, 1}
Outputs == [Pixels -> Logits]

\* sigmoid(x) = exp(-logaddexp(0, -x)), in thousandths
sigmoid(x) == CASE x = -1 -> 269 [] x = 0 -> 500 [] x = 1 -> 731

\* faulty round: a tie goes up
roundHalfUp(p) == IF p >= 500 THEN 1 ELSE 0

\* numpy round(): to the nearest integer, a tie to the even one
round(p) == IF p > 500 THEN 1 ELSE 0

\* the sum of f[lo..hi], by halves
RECURSIVE SumRange(_, _, _)
SumRange(f, lo, hi) ==
    IF lo > hi THEN 0
    ELSE IF lo = hi THEN f[lo]
    ELSE SumRange(f, lo, (lo + hi) \div 2) + SumRange(f, (lo + hi) \div 2 + 1, hi)
\* np.sum over a mask
np_sum(f) == SumRange(f, 1, Len(f))

\* BinaryF1.__init__: the counters are Python ints (numpy = FALSE)
BinaryF1Init ==
    [name |-> "F1", y_true |-> 0, y_pred |-> 0, correct_true |-> 0, numpy |-> FALSE]

\* BinaryF1.value
Value(m) == [key |-> m.name, values |-> <<Num(0, 1), Num(0, 1)>>]

\* BinaryF1.avg_value: the first failing division ends the call
AvgValue(m) ==
    LET recall == Divide(Num(m.correct_true, 1), Num(m.y_pred, 1), m.numpy)
        precision == Divide(Num(m.correct_true, 1), Num(m.y_true, 1), m.numpy)
        f1 == Divide(Times(Times(Num(2, 1), precision), recall),
                     Plus(precision, recall), m.numpy)
    IN  IF recall.kind = "raise" THEN recall
        ELSE IF precision.kind = "raise" THEN precision
        ELSE f1

\* prediction = sigmoid(output[0]).round().astype(np.byte)
Prediction(output) == [i \in DOMAIN output |-> round(sigmoid(output[i]))]

\* faulty CorrectTrue: the (label == 1) factor is missing, so agreeing
\* background pixels count too
CorrectTrueAnyAgreement(label, prediction) ==
    np_sum([i \in DOMAIN label |-> IF label[i] = prediction[i] THEN 1 ELSE 0])

\* (label == prediction) * (label == 1), summed
CorrectTrue(label, prediction) ==
    np_sum([i \in DOMAIN label |->
        (IF label[i] = prediction[i] THEN 1 ELSE 0) * (IF label[i] = 1 THEN 1 ELSE 0)])

\* faulty MetricUpdate: y_true is assigned the sum of this label, not increased by it
MetricUpdateOverwritesYTrue(m, output, target) ==
    LET label == target
        prediction == Prediction(output)
    IN  [m EXCEPT !.y_true = np_sum(label),
                  !.y_pred = @ + np_sum(prediction),
                  !.correct_true = @ + CorrectTrue(label, prediction),
                  !.numpy = TRUE]

\* BinaryF1.update: adding numpy sums turns the counters into numpy scalars
MetricUpdate(m, output, target) ==
    LET label == target
        prediction == Prediction(output)
    IN  [m EXCEPT !.y_true = @ + np_sum(label),
                  !.y_pred = @ + np_sum(prediction),
                  !.correct_true = @ + CorrectTrue(label, prediction),
                  !.numpy = TRUE]

\* faulty MetricReset: correct_true is not zeroed
MetricResetKeepsCorrectTrue(m) ==
    [m EXCEPT !.y_true = 0, !.y_pred = 0, !.numpy = (m.correct_true > 0)]

\* BinaryF1.reset: Python ints again
MetricReset(m) ==
    [m EXCEPT !.y_true = 0, !.y_pred = 0, !.correct_true = 0, !.numpy = FALSE]

\* BinaryF1.get_attributes
GetAttributes(m) == [key |-> m.name, direction |-> "higher-better", type |-> "F1"]

NoCall == [op |-> "none", output |-> <<>>, target |-> <<>>, before |-> BinaryF1Init, ret |-> None]

MetricIdle ==
    /\ metric = BinaryF1Init
    /\ twin = BinaryF1Init
    /\ was_reset = FALSE
    /\ dirty_reset = FALSE
    /\ updates = 0
    /\ call = NoCall

\* metric.update(output, target); the twin is a BinaryF1 constructed at the
\* last reset that receives the same calls
Update(output, target) ==
    /\ updates < MaxUpdates
    /\ metric' = MetricUpdate(metric, output, target)
    /\ twin' = MetricUpdate(twin, output, target)
    /\ updates' = updates + 1
    /\ call' = [op |-> "update", output |-> output, target |-> target,
                before |-> metric, ret |-> None]
    /\ UNCHANGED <<was_reset, dirty_reset, outsideMetric>>

\* metric.reset()
Reset ==
    /\ metric' = MetricReset(metric)
    /\ twin' = BinaryF1Init
    /\ was_reset' = TRUE
    /\ dirty_reset' = (metric.y_true + metric.y_pred + metric.correct_true > 0)
    /\ updates' = 0
    /\ call' = [NoCall EXCEPT !.op = "reset"]
    /\ UNCHANGED outsideMetric

\* metric.avg_value
ReadAvgValue ==
    /\ call' = [NoCall EXCEPT !.op = "avg_value", !.ret = AvgValue(metric)]
    /\ UNCHANGED <<metric, twin, was_reset, dirty_reset, updates, outsideMetric>>

\* metric.value
ReadValue ==
    /\ call' = [NoCall EXCEPT !.op = "value", !.ret = Value(metric)]
    /\ UNCHANGED <<metric, twin, was_reset, dirty_reset, updates, outsideMetric>>

EvalIdle ==
    /\ epc = "idle"
    /\ loader_masks = <<>>
    /\ eidx = 0
    /\ original_metric = None
    /\ quantized_metric = None
    /\ own = BinaryF1Init
    /\ left_by_original = BinaryF1Init

BertIdle ==
    /\ bpc = "idle"
    /\ files = [ir_model_xml |-> "none", compressed_model_xml |-> "none"]
    /\ models = <<>>
    /\ model = 0
    /\ quantized_model = 0
    /\ data_source = <<>>
    /\ predictions = [FP32 |-> <<>>, INT8 |-> <<>>]
    /\ v_precision = "none"
    /\ v_idx = 0
    /\ v_added = <<>>
    /\ fed = <<>>
    /\ printed = <<>>

\* the network segmentation_model holds: `changes` counts the writes to it
\* (reshape, new weights) since it was read
NoCompiledModel == [compiled |-> FALSE, net_changes |-> 0]
NoTensor == [mask_of |-> 0, overlay |-> FALSE]

SharedIdle ==
    /\ net = [changes |-> 0]
    /\ compiled_model = NoCompiledModel
    /\ tensors = <<>>

AsyncIdle ==
    /\ SharedIdle
    /\ apc = "idle"
    /\ image_paths = <<>>
    /\ framebuf = <<>>
    /\ next_frame_id = 0
    /\ requests = <<>>
    /\ frame_i = 0
    /\ callbacks = <<>>
    /\ returned = 0
    /\ at_stop = [read |-> FALSE, in_flight |-> 0, returned |-> 0]

LoaderIdle ==
    /\ dirs = [BASEDIR |-> {}, other |-> {}]
    /\ loader = [state |-> "none", basedir |-> "none", dataset |-> <<>>]
    /\ previous = [state |-> "none", basedir |-> "none", dataset |-> <<>>]
    /\ lcall = [op |-> "none", index |-> 0, ret |-> <<>>, raised |-> FALSE]

\* a path is a directory, a stem (its parts joined by "_") and a suffix
NoPath == [dir |-> "", stem |-> <<>>, suffix |-> ""]
with_suffix(path, suffix) == [path EXCEPT !.suffix = suffix]
\* ONNX_PATH.stem: the trained model if it exists, else the pre-trained one
OnnxStems == {<<"unet", "kits19">>, <<"pretrained", "unet", "kits19">>}
\* algorithms[0]["params"]["preset"] and algorithms[0]["name"]
preset == "performance"
algorithm_name == "DefaultQuantization"
\* the files the notebook reads or writes
IrPaths == {[dir |-> "model", stem |-> s, suffix |-> x] : s \in OnnxStems, x \in {"xml", "bin"}}
SavedPaths ==
    {[dir |-> "optimized_model", stem |-> <<"quantized">> \o s \o <<p, algorithm_name>>,
      suffix |-> x] : s \in OnnxStems, p \in {preset}, x \in {"xml", "bin"}}
Paths == IrPaths \cup SavedPaths
\* what a file holds: the precision of the model in it and whether its
\* weights are stored compressed; NoFile if the file does not exist
NoFile == [precision |-> "none", compressed |-> FALSE]

PotIdle ==
    /\ qpc = "idle"
    /\ ir_path = NoPath
    /\ disk = [p \in Paths |-> NoFile]
    /\ heap = <<>>
    /\ ir_model = 0
    /\ compressed_model = 0
    /\ compressed_model_path = NoPath
    /\ workflow = <<>>

\* time stamps not taken yet
NoTimers == [load_start_time |-> 0, load_end_time |-> 0, start_time |-> 0, stop_time |-> 0]
NoReport == [printed |-> FALSE, load_time |-> None, total_time |-> None, fps |-> None]

TimeIdle ==
    /\ now = 0
    /\ timers = NoTimers
    /\ report = NoReport

BenchIdle ==
    /\ kpc = "idle"
    /\ inputs = 0
    /\ iterations = 0
    /\ ran = {}
    /\ start = 0
    /\ end = 0
    /\ elapsed = [time_torch |-> 0, time_ir |-> 0]
    /\ printed_sps = <<>>

PlateIdle ==
    /\ rpc = "idle"
    /\ result = <<>>
    /\ ridx = 0
    /\ str_list = <<>>
    /\ ans = <<>>

NoPlayer == [created |-> FALSE, started |-> FALSE, stops |-> 0]
NoWindows == [named |-> 0, shown |-> 0, destroyed |-> 0]
NoDisplay == [ms |-> None, fps |-> None]

StyleIdle ==
    /\ spc = "idle"
    /\ args = [use_popup |-> FALSE, pace |-> 0]
    /\ player = NoPlayer
    /\ windows = NoWindows
    /\ exc = "none"
    /\ processing_times = <<>>
    /\ durations = <<>>
    /\ displayed = NoDisplay

BackgroundIdle ==
    /\ gpc = "idle"
    /\ image_px = 0
    /\ resized_result = 0
    /\ bg_removed_result = 0
    /\ wall = 0
    /\ background_image = 0
    /\ new_image = 0

\* the timed region of a measurement: open between the two perf_counter
\* calls, with the loop counter and the calls made inside it
NoRegion == [open |-> FALSE, i |-> 0, preprocess |-> 0, inference |-> 0]

CompareIdle ==
    /\ cpc = "idle"
    /\ image = "none"
    /\ input_image = [of |-> "none", processed |-> FALSE]
    /\ region = NoRegion
    /\ measured = <<>>

InitMetric ==
    PlateIdle /\ StyleIdle /\ BackgroundIdle /\ CompareIdle /\ MetricIdle /\ EvalIdle /\ BertIdle /\ AsyncIdle /\ LoaderIdle /\ PotIdle /\ TimeIdle /\ BenchIdle

NextMetric ==
    \/ \E output \in Outputs, target \in Labels : Update(output, target)
    \/ Reset
    \/ ReadAvgValue
    \/ ReadValue

SpecMetric == InitMetric /\ [][NextMetric]_vars

\* --------------------------------------- BinaryF1 on a synthetic dataset
\* Four samples: two all-zero background masks and two masks with a block of
\* exactly 100 foreground pixels, in any order; the model returns the mask it
\* is given. The samples are in loader_masks, eidx is the next one.
BackgroundMask == [i \in 1..(100 + MaxPad) |-> 0]
ForegroundMask(k) == [i \in 1..(100 + MaxPad) |-> IF i > k /\ i <= k + 100 THEN 1 ELSE 0]
ForegroundMasks == {ForegroundMask(k) : k \in 0..MaxPad}
SyntheticDatasets ==
    {d \in [1..4 -> {BackgroundMask} \cup ForegroundMasks] :
        Cardinality({i \in 1..4 : d[i] = BackgroundMask}) = 2}

\* the mock model: the output is the ground truth unchanged
MockModel(mask) == mask

InitSynthetic ==
    /\ PlateIdle /\ StyleIdle /\ BackgroundIdle /\ CompareIdle /\ MetricIdle /\ BertIdle /\ AsyncIdle /\ LoaderIdle /\ PotIdle /\ TimeIdle /\ BenchIdle
    /\ epc = "synthetic"
    /\ loader_masks \in SyntheticDatasets
    /\ eidx = 1
    /\ original_metric = None
    /\ quantized_metric = None
    /\ own = BinaryF1Init
    /\ left_by_original = BinaryF1Init

\* metric.update(model(sample), sample) for the next sample
SyntheticUpdate ==
    /\ epc = "synthetic"
    /\ eidx <= Len(loader_masks)
    /\ metric' = MetricUpdate(metric, MockModel(loader_masks[eidx]), loader_masks[eidx])
    /\ call' = [op |-> "update", output |-> MockModel(loader_masks[eidx]),
                target |-> loader_masks[eidx], before |-> metric, ret |-> None]
    /\ eidx' = eidx + 1
    /\ UNCHANGED <<twin, was_reset, dirty_reset, updates, epc, loader_masks,
                   original_metric, quantized_metric, own, left_by_original, outsideEval>>

\* metric.avg_value once every sample has been accumulated
SyntheticAverage ==
    /\ epc = "synthetic"
    /\ eidx > Len(loader_masks)
    /\ call' = [NoCall EXCEPT !.op = "avg_value", !.ret = AvgValue(metric)]
    /\ epc' = "synthetic_done"
    /\ UNCHANGED <<metric, twin, was_reset, dirty_reset, updates, loader_masks, eidx,
                   original_metric, quantized_metric, own, left_by_original, outsideEval>>

NextSynthetic == SyntheticUpdate \/ SyntheticAverage

SpecSynthetic == InitSynthetic /\ [][NextSynthetic]_vars

\* ------------------------------------- "Compare Metrics of FP16 and INT8 Model"
\* One engine holds the BinaryF1 in `metric`; evaluation_pipeline and pipeline
\* are both built on that engine. loader_masks are the annotation masks of the
\* data loader; the model output for an item is any output.
Datasets == UNION {[1..n -> Labels] : n \in 0..MaxItems}

\* faulty EvaluateBegin: the metric is not reset
EvaluateBeginKeepsCounters(m) == m

\* Pipeline.evaluate, start of the pass: the engine takes the model and the
\* metric is reset before the pass
EvaluateBegin(m) == MetricReset(m)

\* Pipeline.evaluate, one item: the engine runs the model on the item and
\* feeds the metric with the output and the annotation
EvaluateItem(m, output, annotation) == MetricUpdate(m, output, annotation)

\* Pipeline.evaluate, end of the pass: the average value of the metric
EvaluateResult(m) == AvgValue(m)

\* model_config of the Config cell
model_config ==
    [model_name |-> <<"quantized">> \o ir_path.stem,
     model |-> ir_path,
     weights |-> with_suffix(ir_path, "bin")]

\* load_model(model_config): a new Model object named model_config["model_name"]
load_model(config) ==
    [name |-> config.model_name, precision |-> disk[config.model].precision,
     compressed |-> disk[config.weights].compressed]

\* the state before "Step 2" of the Run Quantization Pipeline cell: the
\* Settings and Config cells have run, mo has written the FP16 IR, the data
\* loader is created
InitEval ==
    /\ PlateIdle /\ StyleIdle /\ BackgroundIdle /\ CompareIdle /\ MetricIdle
    /\ BertIdle
    /\ AsyncIdle
    /\ LoaderIdle
    /\ qpc = "load_model"
    /\ ir_path \in {q \in IrPaths : q.suffix = "xml"}
    /\ disk = [q \in Paths |->
                    IF q \in {ir_path, with_suffix(ir_path, "bin")}
                    THEN [precision |-> "FP16", compressed |-> FALSE]
                    ELSE NoFile]
    /\ heap = <<>>
    /\ ir_model = 0
    /\ compressed_model = 0
    /\ compressed_model_path = NoPath
    /\ workflow = <<>>
    /\ TimeIdle /\ BenchIdle
    /\ epc = "load_model"
    /\ loader_masks \in Datasets
    /\ eidx = 0
    /\ original_metric = None
    /\ quantized_metric = None
    /\ own = BinaryF1Init
    /\ left_by_original = BinaryF1Init

\* Step 2: ir_model = load_model(model_config=model_config)
LoadModel ==
    /\ qpc = "load_model"
    /\ heap' = Append(heap, load_model(model_config))
    /\ ir_model' = Len(heap) + 1
    /\ workflow' = Append(workflow, [op |-> "load_model", arg |-> 0, ret |-> Len(heap) + 1])
    /\ qpc' = "create_pipeline"
    /\ UNCHANGED <<metricVars, evalVars, ir_path, disk, compressed_model,
                   compressed_model_path, outsidePot>>

\* Steps 3 to 5: metric = BinaryF1(); engine = IEEngine(...);
\* pipeline = create_pipeline(algorithms, engine)
CreatePipeline ==
    /\ qpc = "create_pipeline"
    /\ metric' = BinaryF1Init
    /\ workflow' = Append(workflow, [op |-> "create_pipeline", arg |-> 0, ret |-> 0])
    /\ qpc' = "run"
    /\ UNCHANGED <<twin, was_reset, dirty_reset, updates, call, evalVars, ir_path,
                   disk, heap, ir_model, compressed_model, compressed_model_path,
                   outsidePot>>

\* Step 6: compressed_model = pipeline.run(ir_model)
PipelineRun ==
    /\ qpc = "run"
    /\ heap' = Append(heap, [heap[ir_model] EXCEPT !.precision = "INT8"])
    /\ compressed_model' = Len(heap) + 1
    /\ workflow' = Append(workflow, [op |-> "run", arg |-> ir_model, ret |-> Len(heap) + 1])
    /\ qpc' = "compress"
    /\ UNCHANGED <<metricVars, evalVars, ir_path, disk, ir_model,
                   compressed_model_path, outsidePot>>

\* faulty CompressModelWeights: the weights of ir_model are compressed
CompressIrModelWeights ==
    /\ qpc = "compress"
    /\ heap' = [heap EXCEPT ![ir_model].compressed = TRUE]
    /\ workflow' = Append(workflow,
            [op |-> "compress_model_weights", arg |-> ir_model, ret |-> 0])
    /\ qpc' = "save"
    /\ UNCHANGED <<metricVars, evalVars, ir_path, disk, ir_model, compressed_model,
                   compressed_model_path, outsidePot>>

\* Step 7: compress_model_weights(compressed_model); the call returns
\* nothing, the object compressed_model names is changed
CompressModelWeights ==
    /\ qpc = "compress"
    /\ heap' = [heap EXCEPT ![compressed_model].compressed = TRUE]
    /\ workflow' = Append(workflow,
            [op |-> "compress_model_weights", arg |-> compressed_model, ret |-> 0])
    /\ qpc' = "save"
    /\ UNCHANGED <<metricVars, evalVars, ir_path, disk, ir_model, compressed_model,
                   compressed_model_path, outsidePot>>

\* faulty SavedModelPath: the model is saved where it was loaded from
SavedModelOverSource(save_path, model_name) == ir_path

\* save_model(model, save_path, model_name) writes <save_path>/<model_name>.xml
\* and the .bin file next to it
SavedModelPath(save_path, model_name) ==
    [dir |-> save_path, stem |-> model_name, suffix |-> "xml"]

\* Step 8: compressed_model_paths = save_model(model=compressed_model,
\* save_path="optimized_model", model_name=f"{ir_model.name}_{preset}_{algorithm_name}");
\* compressed_model_path = compressed_model_paths[0]["model"]
SaveModel ==
    LET path == SavedModelPath("optimized_model",
                               heap[ir_model].name \o <<preset, algorithm_name>>)
    IN  /\ qpc = "save"
        /\ disk' = [disk EXCEPT ![path] = [precision |-> heap[compressed_model].precision,
                                           compressed |-> heap[compressed_model].compressed],
                                ![with_suffix(path, "bin")] =
                                          [precision |-> heap[compressed_model].precision,
                                           compressed |-> heap[compressed_model].compressed]]
        /\ compressed_model_path' = path
        /\ workflow' = Append(workflow,
                [op |-> "save_model", arg |-> compressed_model, ret |-> 0])
        /\ qpc' = "saved"
        /\ UNCHANGED <<metricVars, evalVars, ir_path, heap, ir_model,
                       compressed_model, outsidePot>>

\* the comparison cell: ir_model = load_model(model_config=model_config);
\* evaluation_pipeline = create_pipeline(algo_config=algorithms, engine=engine)
LoadAndCreatePipeline ==
    /\ qpc = "saved"
    /\ epc = "load_model"
    /\ heap' = Append(heap, load_model(model_config))
    /\ ir_model' = Len(heap) + 1
    /\ epc' = "evaluate_original"
    /\ UNCHANGED <<metricVars, loader_masks, eidx, original_metric, quantized_metric,
                   own, left_by_original, qpc, ir_path, disk, compressed_model,
                   compressed_model_path, workflow, outsidePot>>

\* original_metric = evaluation_pipeline.evaluate(ir_model): the pass starts
EvaluateOriginalBegin ==
    /\ epc = "evaluate_original"
    /\ metric' = EvaluateBegin(metric)
    /\ own' = BinaryF1Init
    /\ eidx' = 1
    /\ epc' = "original_pass"
    /\ UNCHANGED <<twin, was_reset, dirty_reset, updates, call, loader_masks,
                   original_metric, quantized_metric, left_by_original, outsideEval>>

\* one item of either pass
EvaluateStep(output) ==
    /\ epc \in {"original_pass", "quantized_pass"}
    /\ eidx <= Len(loader_masks)
    /\ metric' = EvaluateItem(metric, output, loader_masks[eidx])
    /\ own' = MetricUpdate(own, output, loader_masks[eidx])
    /\ eidx' = eidx + 1
    /\ UNCHANGED <<twin, was_reset, dirty_reset, updates, call, epc, loader_masks,
                   original_metric, quantized_metric, left_by_original, outsideEval>>

\* evaluation_pipeline.evaluate(ir_model) returns, or its exception ends the cell
EvaluateOriginalEnd ==
    /\ epc = "original_pass"
    /\ eidx > Len(loader_masks)
    /\ original_metric' = EvaluateResult(metric)
    /\ epc' = IF EvaluateResult(metric).kind = "raise" THEN "raised" ELSE "evaluate_quantized"
    /\ UNCHANGED <<metricVars, loader_masks, eidx, quantized_metric, own, left_by_original, outsideEval>>

\* quantized_metric = pipeline.evaluate(compressed_model): the pass starts
EvaluateQuantizedBegin ==
    /\ epc = "evaluate_quantized"
    /\ left_by_original' = metric
    /\ metric' = EvaluateBegin(metric)
    /\ own' = BinaryF1Init
    /\ eidx' = 1
    /\ epc' = "quantized_pass"
    /\ UNCHANGED <<twin, was_reset, dirty_reset, updates, call, loader_masks,
                   original_metric, quantized_metric, outsideEval>>

\* pipeline.evaluate(compressed_model) returns; the scores are printed
EvaluateQuantizedEnd ==
    /\ epc = "quantized_pass"
    /\ eidx > Len(loader_masks)
    /\ quantized_metric' = EvaluateResult(metric)
    /\ epc' = IF EvaluateResult(metric).kind = "raise" THEN "raised" ELSE "printed"
    /\ UNCHANGED <<metricVars, loader_masks, eidx, original_metric, own, left_by_original, outsideEval>>

NextEval ==
    \/ LoadModel
    \/ CreatePipeline
    \/ PipelineRun
    \/ CompressModelWeights
    \/ SaveModel
    \/ LoadAndCreatePipeline
    \/ EvaluateOriginalBegin
    \/ \E output \in Outputs : EvaluateStep(output)
    \/ EvaluateOriginalEnd
    \/ EvaluateQuantizedBegin
    \/ EvaluateQuantizedEnd

SpecEval == InitEval /\ [][NextEval]_vars

\* --------------------------------------------------- BERT quantization notebook
\* The cells run top to bottom. A Model object is an entry of `models`
\* (precision, dynamic input shapes); `model` and `quantized_model` are the
\* notebook's names, holding the index of the object they are bound to (0:
\* not bound). A file holds the precision of the model serialized to it.
\* predictions[p][i] is the argmax of the output of the model of precision p
\* on item i; data_source[i] is the item's label.
Classes == {0, 1}

\* F1 of the positive class over the (prediction, reference) pairs added
F1Score(pairs) ==
    LET tp == Cardinality({k \in DOMAIN pairs : pairs[k] = <<1, 1>>})
        fp == Cardinality({k \in DOMAIN pairs : pairs[k] = <<1, 0>>})
        fn == Cardinality({k \in DOMAIN pairs : pairs[k] = <<0, 1>>})
    IN  IF 2 * tp + fp + fn = 0 THEN Num(0, 1) ELSE Num(2 * tp, 2 * tp + fp + fn)

InitBert ==
    /\ PlateIdle /\ StyleIdle /\ BackgroundIdle /\ CompareIdle /\ MetricIdle /\ EvalIdle /\ AsyncIdle /\ LoaderIdle /\ PotIdle /\ TimeIdle /\ BenchIdle
    /\ bpc = "convert"
    /\ files \in [ir_model_xml : {"none", "FP32"}, compressed_model_xml : {"none"}]
    /\ models = <<>>
    /\ model = 0
    /\ quantized_model = 0
    /\ \E n \in 1..MaxData :
            /\ data_source \in [1..n -> Classes]
            /\ predictions \in [FP32 : [1..n -> Classes], INT8 : [1..n -> Classes]]
    /\ v_precision = "none"
    /\ v_idx = 0
    /\ v_added = <<>>
    /\ fed = [i \in DOMAIN data_source |-> 0]
    /\ printed = <<>>

\* if not ir_model_xml.exists(): model = mo.convert_model(...); serialize(...)
CellConvert ==
    /\ bpc = "convert"
    /\ IF files.ir_model_xml = "none"
       THEN /\ models' = Append(models, [precision |-> "FP32", dynamic |-> FALSE])
            /\ model' = Len(models) + 1
            /\ files' = [files EXCEPT !.ir_model_xml = "FP32"]
       ELSE UNCHANGED <<models, model, files>>
    /\ bpc' = "quantize"
    /\ UNCHANGED <<quantized_model, data_source, predictions, v_precision, v_idx,
                   v_added, fed, printed, outsideBert>>

\* nncf.quantize on a model of precision p: quantizing a quantized model again
\* gives a doubly-quantized one
NncfQuantize(p) == IF p = "INT8" THEN "INT8 of INT8" ELSE "INT8"

\* faulty CellQuantize: the cell quantizes the Model that `model` names
\* when it is bound, without reading ir_model_xml again
CellQuantizeBoundModel ==
    LET m == IF model = 0 THEN [precision |-> files.ir_model_xml, dynamic |-> FALSE]
                          ELSE models[model]
    IN  /\ \/ bpc = "quantize"
           \/ /\ bpc \in {"serialize", "load_int8", "validate_original"}
              /\ Len(models) + 2 <= MaxModels
        /\ models' = models \o <<m, [precision |-> NncfQuantize(m.precision),
                                      dynamic |-> FALSE]>>
        /\ model' = Len(models) + 1
        /\ quantized_model' = Len(models) + 2
        /\ bpc' = "serialize"
        /\ UNCHANGED <<files, data_source, predictions, v_precision, v_idx, v_added, fed,
                       printed, outsideBert>>

\* model = core.read_model(ir_model_xml); quantized_model = nncf.quantize(model, ...)
\* The cell runs in its turn, and may be run again later, also after the
\* next cells have rebound `model`: the notebook then continues below it
CellQuantize ==
    /\ \/ bpc = "quantize"
       \/ /\ bpc \in {"serialize", "load_int8", "validate_original"}
          /\ Len(models) + 2 <= MaxModels
    /\ models' = models \o <<[precision |-> files.ir_model_xml, dynamic |-> FALSE],
                              [precision |-> NncfQuantize(files.ir_model_xml),
                               dynamic |-> FALSE]>>
    /\ model' = Len(models) + 1
    /\ quantized_model' = Len(models) + 2
    /\ bpc' = "serialize"
    /\ UNCHANGED <<files, data_source, predictions, v_precision, v_idx, v_added, fed,
                   printed, outsideBert>>

\* ov.serialize(quantized_model, compressed_model_xml)
CellSerialize ==
    /\ bpc = "serialize"
    /\ files' = [files EXCEPT !.compressed_model_xml = models[quantized_model].precision]
    /\ bpc' = "load_int8"
    /\ UNCHANGED <<models, model, quantized_model, data_source, predictions,
                   v_precision, v_idx, v_added, fed, printed, outsideBert>>

\* model = core.read_model(model=compressed_model_xml); model.reshape(...) on
\* every input; compiled_model_int8 = core.compile_model(model)
CellLoadInt8 ==
    /\ bpc = "load_int8"
    /\ models' = Append(models, [precision |-> files.compressed_model_xml, dynamic |-> TRUE])
    /\ model' = Len(models) + 1
    /\ bpc' = "validate_original"
    /\ UNCHANGED <<files, quantized_model, data_source, predictions, v_precision,
                   v_idx, v_added, fed, printed, outsideBert>>

\* faulty ValidateBegin: the dataset is a one-shot iterator, a second call
\* resumes where the first one stopped
ValidateBeginOneShotDataset(m) ==
    /\ v_precision' = models[m].precision
    /\ v_idx' = IF v_idx = 0 THEN 1 ELSE v_idx
    /\ v_added' = <<>>
    /\ fed' = fed

\* validate(m, data_source), up to the loop: compile the model, load the metric
ValidateBegin(m) ==
    /\ v_precision' = models[m].precision
    /\ v_idx' = 1
    /\ v_added' = <<>>
    /\ fed' = [i \in DOMAIN data_source |-> 0]

\* metric = validate(model, data_source)
ValidateOriginalCall ==
    /\ bpc = "validate_original"
    /\ ValidateBegin(model)
    /\ bpc' = "original_loop"
    /\ UNCHANGED <<files, models, model, quantized_model, data_source, predictions,
                   printed, outsideBert>>

\* metric = validate(quantized_model, data_source)
ValidateQuantizedCall ==
    /\ bpc = "validate_quantized"
    /\ ValidateBegin(quantized_model)
    /\ bpc' = "quantized_loop"
    /\ UNCHANGED <<files, models, model, quantized_model, data_source, predictions,
                   printed, outsideBert>>

\* one iteration of `for batch in dataset`: run the model, add one batch
ValidateStep ==
    /\ bpc \in {"original_loop", "quantized_loop"}
    /\ v_idx <= Len(data_source)
    /\ v_added' = Append(v_added, <<predictions[v_precision][v_idx], data_source[v_idx]>>)
    /\ fed' = [fed EXCEPT ![v_idx] = @ + 1]
    /\ v_idx' = v_idx + 1
    /\ UNCHANGED <<bpc, files, models, model, quantized_model, data_source, predictions,
                   v_precision, printed, outsideBert>>

\* faulty ValidateCompute: metric.compute() and the return sit inside the loop,
\* so the score may be taken once one batch has been added
ValidateComputeInsideLoop ==
    /\ bpc \in {"original_loop", "quantized_loop"}
    /\ v_idx > 1
    /\ printed' = Append(printed,
            [title |-> IF bpc = "original_loop" THEN "original" ELSE "quantized",
             precision |-> v_precision, batches |-> Len(v_added), f1 |-> F1Score(v_added)])
    /\ bpc' = IF bpc = "original_loop" THEN "validate_quantized" ELSE "load_fp32"
    /\ UNCHANGED <<files, models, model, quantized_model, data_source, predictions,
                   v_precision, v_idx, v_added, fed, outsideBert>>

\* the loop has ended: metric.compute(), return f1_score; the cell prints it
\* under the title of the call
ValidateCompute ==
    /\ bpc \in {"original_loop", "quantized_loop"}
    /\ v_idx > Len(data_source)
    /\ printed' = Append(printed,
            [title |-> IF bpc = "original_loop" THEN "original" ELSE "quantized",
             precision |-> v_precision, batches |-> Len(v_added), f1 |-> F1Score(v_added)])
    /\ bpc' = IF bpc = "original_loop" THEN "validate_quantized" ELSE "load_fp32"
    /\ UNCHANGED <<files, models, model, quantized_model, data_source, predictions,
                   v_precision, v_idx, v_added, fed, outsideBert>>

\* model = core.read_model(model=ir_model_xml); model.reshape(dynamic_shapes);
\* compiled_model_fp32 = core.compile_model(model)
CellLoadFp32 ==
    /\ bpc = "load_fp32"
    /\ models' = Append(models, [precision |-> files.ir_model_xml, dynamic |-> TRUE])
    /\ model' = Len(models) + 1
    /\ bpc' = "benchmark"
    /\ UNCHANGED <<files, quantized_model, data_source, predictions, v_precision,
                   v_idx, v_added, fed, printed, outsideBert>>

NextBert ==
    \/ CellConvert
    \/ CellQuantize
    \/ CellSerialize
    \/ CellLoadInt8
    \/ ValidateOriginalCall
    \/ ValidateStep
    \/ ValidateCompute
    \/ ValidateQuantizedCall
    \/ CellLoadFp32

SpecBert == InitBert /\ [][NextBert]_vars

\* --------------------------------------------------- live-inference notebook
\* image_paths is the sorted list of the case's images (numbered 1..n);
\* framebuf holds the images read. An infer request of the queue is idle,
\* running an inference, or running completion_callback.
IdleRequest == [state |-> "idle", frame |-> 0, user_data |-> [preprocess_meta |-> 0]]

\* segmentation_model.preprocess(...): the meta data of one input frame
preprocess(frame) == frame

\* the requests start_async may take: the queue hands out an idle one and
\* blocks while there is none
IdleRequests == {r \in DOMAIN requests : requests[r].state = "idle"}

\* wait_all blocks until every request has run its callback and is idle again
AllRequestsDone == \A r \in DOMAIN requests : requests[r].state = "idle"

InitAsync ==
    /\ PlateIdle /\ StyleIdle /\ BackgroundIdle /\ CompareIdle /\ MetricIdle /\ EvalIdle /\ BertIdle /\ LoaderIdle /\ PotIdle /\ TimeIdle /\ BenchIdle
    /\ SharedIdle
    /\ apc = "load_frames"
    /\ \E n \in 0..MaxImages : image_paths = [k \in 1..n |-> k]
    /\ framebuf = <<>>
    /\ next_frame_id = 0
    /\ requests = <<>>
    /\ frame_i = 0
    /\ callbacks = <<>>
    /\ returned = 0
    /\ at_stop = [read |-> FALSE, in_flight |-> 0, returned |-> 0]

\* what inference writes to the output tensor of a request for a frame
InferenceOutput(frame) == [mask_of |-> frame, overlay |-> FALSE]

\* segmentation_model.postprocess(raw_outputs, preprocess_meta): the overlay
\* of the mask on the frame, made in the arrays it is given
postprocess(raw_outputs) == [raw_outputs EXCEPT !.overlay = TRUE]

\* while next_frame_id < len(image_paths) - 1: read the image, append it
LoadFrame ==
    /\ apc = "load_frames"
    /\ next_frame_id < Len(image_paths) - 1
    /\ framebuf' = Append(framebuf, image_paths[next_frame_id + 1])
    /\ next_frame_id' = next_frame_id + 1
    /\ UNCHANGED <<apc, image_paths, requests, frame_i, callbacks, returned, at_stop,
                   timeVars, sharedVars, outsideAsync>>

\* time passes while a timed loop is running
Tick ==
    /\ now < MaxTime
    /\ \/ apc \in {"submit", "wait_all", "stop"}
       \/ kpc \in {"start", "loop"}
    /\ now' = now + 1
    /\ UNCHANGED <<metricVars, evalVars, bertVars, asyncVars, loaderVars, potVars,
                   timers, report, benchVars, sharedVars, compareVars, backgroundVars,
                   styleVars, plateVars>>

\* faulty CreateQueue: start_time is taken before the model is compiled
CreateQueueTimerBeforeCompile(jobs) ==
    /\ apc = "load_frames"
    /\ ~(next_frame_id < Len(image_paths) - 1)
    /\ requests' = [r \in 1..jobs |-> IdleRequest]
    /\ compiled_model' = [compiled |-> TRUE, net_changes |-> net.changes]
    /\ tensors' = [r \in 1..jobs |-> NoTensor]
    /\ frame_i' = 1
    /\ \E compile, rest \in 0..MaxStep :
            /\ now + compile + rest <= MaxTime
            /\ timers' = [timers EXCEPT !.start_time = now,
                                        !.load_start_time = now,
                                        !.load_end_time = now + compile]
            /\ now' = now + compile + rest
    /\ apc' = "submit"
    /\ UNCHANGED <<image_paths, framebuf, next_frame_id, callbacks, returned, at_stop,
                   report, net, outsideAsync>>

\* the loop ends; load_start_time, compile the model, create the queue with
\* the number of requests the runtime picks, set the callback, load_end_time;
\* results, frame_number; start_time. Compiling and the rest take some time.
CreateQueue(jobs) ==
    /\ apc = "load_frames"
    /\ ~(next_frame_id < Len(image_paths) - 1)
    /\ requests' = [r \in 1..jobs |-> IdleRequest]
    /\ compiled_model' = [compiled |-> TRUE, net_changes |-> net.changes]
    /\ tensors' = [r \in 1..jobs |-> NoTensor]
    /\ frame_i' = 1
    /\ \E compile, rest \in 0..MaxStep :
            /\ now + compile + rest <= MaxTime
            /\ timers' = [timers EXCEPT !.load_start_time = now,
                                        !.load_end_time = now + compile,
                                        !.start_time = now + compile + rest]
            /\ now' = now + compile + rest
    /\ apc' = "submit"
    /\ UNCHANGED <<image_paths, framebuf, next_frame_id, callbacks, returned, at_stop,
                   report, net, outsideAsync>>

\* faulty StartAsync: every call passes the meta data of the first frame
StartAsyncSharedUserData(r) ==
    /\ apc = "submit"
    /\ frame_i <= Len(framebuf)
    /\ r \in IdleRequests
    /\ requests' = [requests EXCEPT ![r] =
            [state |-> "running", frame |-> framebuf[frame_i],
             user_data |-> [preprocess_meta |-> preprocess(framebuf[1])]]]
    /\ frame_i' = frame_i + 1
    /\ UNCHANGED <<apc, image_paths, framebuf, next_frame_id, callbacks, returned,
                   at_stop, timeVars, sharedVars, outsideAsync>>

\* one iteration of `for i, input_frame in enumerate(framebuf)`: preprocess
\* the frame, start_async(inputs, {'preprocess_meta': preprocessing_meta})
StartAsync(r) ==
    /\ apc = "submit"
    /\ frame_i <= Len(framebuf)
    /\ r \in IdleRequests
    /\ requests' = [requests EXCEPT ![r] =
            [state |-> "running", frame |-> framebuf[frame_i],
             user_data |-> [preprocess_meta |-> preprocess(framebuf[frame_i])]]]
    /\ frame_i' = frame_i + 1
    /\ UNCHANGED <<apc, image_paths, framebuf, next_frame_id, callbacks, returned,
                   at_stop, timeVars, sharedVars, outsideAsync>>

\* the submission loop has ended: infer_queue.wait_all() is called
CallWaitAll ==
    /\ apc = "submit"
    /\ frame_i > Len(framebuf)
    /\ apc' = "wait_all"
    /\ UNCHANGED <<image_paths, framebuf, next_frame_id, requests, frame_i, callbacks,
                   returned, at_stop, timeVars, sharedVars, outsideAsync>>

\* a request finishes its inference, in any order: its output tensor is
\* written and completion_callback is called with the request and its user
\* data; raw_outputs is a deep copy of the output tensor
CompletionCallbackCalled(r) ==
    /\ r \in DOMAIN requests
    /\ requests[r].state = "running"
    /\ tensors' = [tensors EXCEPT ![r] = InferenceOutput(requests[r].frame)]
    /\ callbacks' = Append(callbacks,
            [preprocess_meta |-> requests[r].user_data.preprocess_meta,
             output_of |-> requests[r].frame,
             raw_outputs |-> InferenceOutput(requests[r].frame)])
    /\ requests' = [requests EXCEPT ![r].state = "callback"]
    /\ UNCHANGED <<apc, image_paths, framebuf, next_frame_id, frame_i, returned,
                   at_stop, timeVars, net, compiled_model, outsideAsync>>

\* faulty CompletionCallbackReturns: raw_outputs is res.data itself, not a
\* deep copy, so the overlay is made in the output tensor of the request
CompletionCallbackNoDeepCopy(r) ==
    /\ r \in DOMAIN requests
    /\ requests[r].state = "callback"
    /\ tensors' = [tensors EXCEPT ![r] = postprocess(tensors[r])]
    /\ callbacks' = [k \in DOMAIN callbacks |->
            IF callbacks[k].output_of = requests[r].frame
            THEN [callbacks[k] EXCEPT !.raw_outputs = postprocess(tensors[r])]
            ELSE callbacks[k]]
    /\ requests' = [requests EXCEPT ![r] = IdleRequest]
    /\ returned' = returned + 1
    /\ UNCHANGED <<apc, image_paths, framebuf, next_frame_id, frame_i,
                   at_stop, timeVars, net, compiled_model, outsideAsync>>

\* completion_callback has postprocessed its copy of the output, displayed
\* the frame and returns
CompletionCallbackReturns(r) ==
    /\ r \in DOMAIN requests
    /\ requests[r].state = "callback"
    /\ callbacks' = [k \in DOMAIN callbacks |->
            IF callbacks[k].output_of = requests[r].frame
            THEN [callbacks[k] EXCEPT !.raw_outputs = postprocess(@)]
            ELSE callbacks[k]]
    /\ requests' = [requests EXCEPT ![r] = IdleRequest]
    /\ returned' = returned + 1
    /\ UNCHANGED <<apc, image_paths, framebuf, next_frame_id, frame_i,
                   at_stop, timeVars, sharedVars, outsideAsync>>

\* infer_queue.wait_all() returns
WaitAllReturns ==
    /\ apc = "wait_all"
    /\ AllRequestsDone
    /\ apc' = "stop"
    /\ UNCHANGED <<image_paths, framebuf, next_frame_id, requests, frame_i, callbacks,
                   returned, at_stop, timeVars, sharedVars, outsideAsync>>

\* faulty ReadStopTime: stop_time is read without waiting for wait_all
ReadStopTimeWithoutWaiting ==
    /\ apc \in {"wait_all", "stop"}
    /\ at_stop' = [read |-> TRUE,
                   in_flight |-> Cardinality(DOMAIN requests \ IdleRequests),
                   returned |-> returned]
    /\ timers' = [timers EXCEPT !.stop_time = now]
    /\ apc' = "report"
    /\ UNCHANGED <<image_paths, framebuf, next_frame_id, requests, frame_i, callbacks,
                   returned, now, report, sharedVars, outsideAsync>>

\* stop_time = time.time()
ReadStopTime ==
    /\ apc = "stop"
    /\ at_stop' = [read |-> TRUE,
                   in_flight |-> Cardinality(DOMAIN requests \ IdleRequests),
                   returned |-> returned]
    /\ timers' = [timers EXCEPT !.stop_time = now]
    /\ apc' = "report"
    /\ UNCHANGED <<image_paths, framebuf, next_frame_id, requests, frame_i, callbacks,
                   returned, now, report, sharedVars, outsideAsync>>

\* total_time, fps = len(framebuf) / total_time, time_per_frame = 1 / fps, prints
Report ==
    LET total_time == Num(timers.stop_time - timers.start_time, 1)
        fps == Divide(Num(Len(framebuf), 1), total_time, FALSE)
        time_per_frame == Divide(Num(1, 1), fps, FALSE)
    IN  /\ apc = "report"
        /\ IF time_per_frame.kind = "raise"
           THEN /\ apc' = "raised"
                /\ UNCHANGED report
           ELSE /\ apc' = "done"
                /\ report' = [printed |-> TRUE,
                              load_time |-> Num(timers.load_end_time - timers.load_start_time, 1),
                              total_time |-> total_time,
                              fps |-> fps]
        /\ UNCHANGED <<image_paths, framebuf, next_frame_id, requests, frame_i, callbacks,
                       returned, at_stop, now, timers, sharedVars, outsideAsync>>

NextAsync ==
    \/ LoadFrame
    \/ \E jobs \in 1..MaxJobs : CreateQueue(jobs)
    \/ \E r \in DOMAIN requests : StartAsync(r)
    \/ CallWaitAll
    \/ \E r \in DOMAIN requests : CompletionCallbackCalled(r)
    \/ \E r \in DOMAIN requests : CompletionCallbackReturns(r)
    \/ WaitAllReturns
    \/ ReadStopTime
    \/ Report
    \/ Tick

SpecAsync == InitAsync /\ [][NextAsync]_vars

\* ------------------------------------------------------- BERT benchmark cell
\* The models are loaded and compiled by the cells above. The cell times
\* three loops in turn; each prints its line when it has ended, so the loop
\* that is running is the one after the lines printed so far.
num_samples == 50
Titles == <<"PyTorch model on CPU", "IR FP32 model in OpenVINO Runtime/CPU",
            "OpenVINO IR INT8 model in OpenVINO Runtime/CPU">>
CurrentLoop == Len(printed_sps) + 1

InitBench ==
    /\ PlateIdle /\ StyleIdle /\ BackgroundIdle /\ CompareIdle /\ MetricIdle /\ EvalIdle /\ BertIdle /\ AsyncIdle /\ LoaderIdle /\ PotIdle /\ TimeIdle
    /\ kpc = "prepare"
    /\ inputs = 0
    /\ iterations = 0
    /\ ran = {}
    /\ start = 0
    /\ end = 0
    /\ elapsed = [time_torch |-> 0, time_ir |-> 0]
    /\ printed_sps = <<>>

\* sample = data_source[0]; inputs = {...}: the first item of the data source
PrepareInputs ==
    /\ kpc = "prepare"
    /\ inputs' = 1
    /\ kpc' = "start"
    /\ UNCHANGED <<iterations, ran, start, end, elapsed, printed_sps, timeVars, outsideBench>>

\* start = time.perf_counter(); the loop begins
TimerStart ==
    /\ kpc = "start"
    /\ start' = now
    /\ iterations' = 0
    /\ ran' = {}
    /\ kpc' = "loop"
    /\ UNCHANGED <<inputs, end, elapsed, printed_sps, timeVars, outsideBench>>

\* one iteration of `for _ in range(num_samples)`: the model runs on inputs
BenchRun ==
    /\ kpc = "loop"
    /\ iterations < num_samples
    /\ iterations' = iterations + 1
    /\ ran' = ran \cup {inputs}
    /\ UNCHANGED <<kpc, inputs, start, end, elapsed, printed_sps, timeVars, outsideBench>>

\* the range is exhausted: end = time.perf_counter(); time_torch or time_ir = end - start
TimerEnd ==
    /\ kpc = "loop"
    /\ iterations = num_samples
    /\ end' = now
    /\ elapsed' = IF CurrentLoop = 1 THEN [elapsed EXCEPT !.time_torch = now - start]
                                     ELSE [elapsed EXCEPT !.time_ir = now - start]
    /\ kpc' = "print"
    /\ UNCHANGED <<inputs, iterations, ran, start, printed_sps, timeVars, outsideBench>>

\* print(f"...: {time / num_samples:.3f} seconds per sentence, SPS: {num_samples / time:.2f}")
PrintSps ==
    LET time == IF CurrentLoop = 1 THEN elapsed.time_torch ELSE elapsed.time_ir
        seconds == Divide(Num(time, 1), Num(num_samples, 1), FALSE)
        sps == Divide(Num(num_samples, 1), Num(time, 1), FALSE)
    IN  /\ kpc = "print"
        /\ IF sps.kind = "raise"
           THEN /\ kpc' = "raised"
                /\ UNCHANGED printed_sps
           ELSE /\ printed_sps' = Append(printed_sps,
                        [title |-> Titles[CurrentLoop], seconds_per_sentence |-> seconds,
                         sps |-> sps, runs |-> iterations, ran |-> ran,
                         start |-> start, end |-> end])
                /\ kpc' = IF CurrentLoop = Len(Titles) THEN "done" ELSE "start"
        /\ UNCHANGED <<inputs, iterations, ran, start, end, elapsed, timeVars, outsideBench>>

NextBench ==
    \/ PrepareInputs
    \/ TimerStart
    \/ BenchRun
    \/ TimerEnd
    \/ PrintSps
    \/ Tick

\* either timed cell is run: the live-inference cell or the BERT benchmark
InitTiming == InitAsync \/ InitBench
NextTiming == NextAsync \/ NextBench
SpecTiming == InitTiming /\ [][NextTiming]_vars

\* --------------------------------------------------------------- KitsDataLoader
\* A mask file case_<c>/segmentation_frames/<s>.png is the pair <<c, s>>.
\* dirs.BASEDIR is the directory of the notebook's global BASEDIR; dirs.other
\* is another directory a loader may be given.
CaseIds == {1, 7, 10}
MaskFiles == CaseIds \X (1..MaxSlices)
DirNames == {"BASEDIR", "other"}

\* val_indices
val_indices == {7, 10, 14, 15, 30, 60, 71, 74, 75, 81, 92, 93,
                106, 115, 117, 119, 134, 161, 192, 196, 203}

\* order of the paths: case_%05d, then the file name
PathBefore(a, b) == a[1] < b[1] \/ (a[1] = b[1] /\ a[2] < b[2])

\* the paths of a set in ascending order
RECURSIVE Ascending(_)
Ascending(S) ==
    IF S = {} THEN <<>>
    ELSE LET first == CHOOSE a \in S : \A b \in S \ {a} : PathBefore(a, b)
         IN  <<first>> \o Ascending(S \ {first})

\* Path.glob yields the files of a directory in the order the file system
\* lists them, which is not specified: here any rotation of the ascending order
glob(dir) ==
    {[i \in 1..Cardinality(dir) |-> Ascending(dir)[((i + k - 1) % Cardinality(dir)) + 1]] :
        k \in 0..(IF dir = {} THEN 0 ELSE Cardinality(dir) - 1)}

\* faulty sorted: the listing is used in the order glob gave
unsorted(listing) == listing

\* sorted(listing)
sorted(listing) == Ascending({listing[i] : i \in DOMAIN listing})

\* [mask for mask in allmasks if mask.parents[1].name in val_cases]
RECURSIVE ValMasks(_)
ValMasks(allmasks) ==
    IF allmasks = <<>> THEN <<>>
    ELSE (IF Head(allmasks)[1] \in val_indices THEN <<Head(allmasks)>> ELSE <<>>)
         \o ValMasks(Tail(allmasks))

InitLoader ==
    /\ PlateIdle /\ StyleIdle /\ BackgroundIdle /\ CompareIdle /\ MetricIdle /\ EvalIdle /\ BertIdle /\ AsyncIdle /\ PotIdle /\ TimeIdle /\ BenchIdle
    /\ dirs \in [DirNames -> SUBSET MaskFiles]
    /\ loader = [state |-> "none", basedir |-> "none", dataset |-> <<>>]
    /\ previous = [state |-> "none", basedir |-> "none", dataset |-> <<>>]
    /\ lcall = [op |-> "none", index |-> 0, ret |-> <<>>, raised |-> FALSE]

\* KitsDataLoader(basedir): the masks are listed under the global BASEDIR
KitsDataLoaderInit(basedir) ==
    \E listing \in glob(dirs["BASEDIR"]) :
        LET allmasks == sorted(listing)
        IN  /\ loader' = IF Len(allmasks) = 0
                         THEN [state |-> "ValueError", basedir |-> basedir, dataset |-> <<>>]
                         ELSE [state |-> "constructed", basedir |-> basedir,
                               dataset |-> ValMasks(allmasks)]
            /\ previous' = loader
            /\ lcall' = [op |-> "init", index |-> 0, ret |-> <<>>,
                         raised |-> (Len(allmasks) = 0)]
            /\ UNCHANGED <<dirs, outsideLoader>>

\* len(data_loader)
LoaderLen ==
    /\ loader.state = "constructed"
    /\ lcall' = [op |-> "len", index |-> 0, ret |-> <<Len(loader.dataset)>>,
                 raised |-> FALSE]
    /\ UNCHANGED <<dirs, loader, previous, outsideLoader>>

\* data_loader[index]: annotation index, and case and slice of the mask
LoaderGetItem(index) ==
    /\ loader.state = "constructed"
    /\ index < Len(loader.dataset)
    /\ lcall' = [op |-> "getitem", index |-> index,
                 ret |-> <<index, loader.dataset[index + 1][1], loader.dataset[index + 1][2]>>,
                 raised |-> FALSE]
    /\ UNCHANGED <<dirs, loader, previous, outsideLoader>>

NextLoader ==
    \/ \E basedir \in DirNames : KitsDataLoaderInit(basedir)
    \/ LoaderLen
    \/ \E index \in 0..(Cardinality(MaskFiles) - 1) : LoaderGetItem(index)

SpecLoader == InitLoader /\ [][NextLoader]_vars

\* ------------------------------- PaddlePaddle notebook: Timing and Comparison
num_images == 50
ImageFiles == {"coco_close.png", "other.png"}

\* process_image(image): the preprocess_ops of the classifier applied to the image
process_image(img) == [of |-> img, processed |-> TRUE]

\* image = Image.open(fp=IMAGE_FILENAME)
InitCompare ==
    /\ PlateIdle /\ StyleIdle /\ BackgroundIdle /\ MetricIdle /\ EvalIdle /\ BertIdle /\ AsyncIdle /\ LoaderIdle /\ PotIdle /\ TimeIdle
    /\ BenchIdle
    /\ cpc = "paddle_start"
    /\ image \in ImageFiles
    /\ input_image = [of |-> "none", processed |-> FALSE]
    /\ region = NoRegion
    /\ measured = <<>>

outsideCompare == <<metricVars, evalVars, bertVars, asyncVars, loaderVars, potVars, timeVars,
                    benchVars, sharedVars, backgroundVars, styleVars, plateVars>>

\* start = time.perf_counter() of either measurement
RegionStart(at, to) ==
    /\ cpc = at
    /\ region' = [open |-> TRUE, i |-> 0, preprocess |-> 0, inference |-> 0]
    /\ cpc' = to
    /\ UNCHANGED <<image, input_image, measured, outsideCompare>>

PaddleStart == RegionStart("paddle_start", "paddle_loop")

\* result = next(classifier.predict(np.array(image))): predict preprocesses
\* the image it is given and runs the PaddlePaddle model
PaddlePredict ==
    /\ cpc = "paddle_loop"
    /\ region.i < num_images
    /\ region' = [region EXCEPT !.i = @ + 1, !.preprocess = @ + 1, !.inference = @ + 1]
    /\ UNCHANGED <<cpc, image, input_image, measured, outsideCompare>>

\* end = time.perf_counter(); time_ir = end - start; print(...)
RegionEnd(at, to, title) ==
    /\ cpc = at
    /\ region.i = num_images
    /\ measured' = Append(measured, [title |-> title, preprocess |-> region.preprocess,
                                     inference |-> region.inference])
    /\ region' = NoRegion
    /\ cpc' = to
    /\ UNCHANGED <<image, input_image, outsideCompare>>

PaddleEnd == RegionEnd("paddle_loop", "ov_compile", "PaddlePaddle model on CPU")

\* compiled_model = ie.compile_model(model=model, device_name="CPU");
\* output_layer = compiled_model.output(0): before the timed region
OvCompile ==
    /\ cpc = "ov_compile"
    /\ cpc' = "ov_start"
    /\ UNCHANGED <<image, input_image, region, measured, outsideCompare>>

OvStart == RegionStart("ov_start", "ov_preprocess")

\* input_image = process_image(np.array(image))[None,]: after start, before the loop
OvPreprocess ==
    /\ cpc = "ov_preprocess"
    /\ input_image' = process_image(image)
    /\ region' = [region EXCEPT !.preprocess = @ + 1]
    /\ cpc' = "ov_loop"
    /\ UNCHANGED <<image, measured, outsideCompare>>

\* ie_result = compiled_model([input_image])[output_layer][0]; top_indices, top_softmax
OvInfer ==
    /\ cpc = "ov_loop"
    /\ region.i < num_images
    /\ input_image.processed
    /\ region' = [region EXCEPT !.i = @ + 1, !.inference = @ + 1]
    /\ UNCHANGED <<cpc, image, input_image, measured, outsideCompare>>

OvEnd == RegionEnd("ov_loop", "done", "OpenVINO IR model in OpenVINO Runtime (CPU)")

NextCompare ==
    \/ PaddleStart
    \/ PaddlePredict
    \/ PaddleEnd
    \/ OvCompile
    \/ OvStart
    \/ OvPreprocess
    \/ OvInfer
    \/ OvEnd

SpecCompare == InitCompare /\ [][NextCompare]_vars

\* ------------------------------- background-removal notebook: new background
\* arrays are np.uint8: one pixel of one channel stands for the array, the
\* operations being elementwise
UInt8 == 0..255
uint8_add(a, b) == (a + b) % 256

\* image read, segmentation result resized and rounded to 0 or 1, background
\* file read and resized to the image's size
InitBackground ==
    /\ PlateIdle /\ StyleIdle /\ MetricIdle /\ EvalIdle /\ BertIdle /\ AsyncIdle /\ LoaderIdle /\ PotIdle /\ TimeIdle
    /\ BenchIdle /\ CompareIdle
    /\ gpc = "remove_background"
    /\ image_px \in UInt8
    /\ resized_result \in {0, 1}
    /\ wall \in UInt8
    /\ bg_removed_result = 0
    /\ background_image = 0
    /\ new_image = 0

outsideBackground == <<metricVars, evalVars, bertVars, asyncVars, loaderVars, potVars,
                       timeVars, benchVars, sharedVars, compareVars, styleVars, plateVars>>

\* bg_removed_result = image.copy(); bg_removed_result[resized_result == 0] = 255
RemoveBackground ==
    /\ gpc = "remove_background"
    /\ bg_removed_result' = IF resized_result = 0 THEN 255 ELSE image_px
    /\ gpc' = "add_background"
    /\ UNCHANGED <<image_px, resized_result, wall, background_image, new_image,
                   outsideBackground>>

\* background_image = cv2.resize(...); background_image[resized_result == 1] = 0;
\* new_image = background_image + bg_removed_result
AddBackground ==
    /\ gpc = "add_background"
    /\ background_image' = IF resized_result = 1 THEN 0 ELSE wall
    /\ new_image' = uint8_add(background_image', bg_removed_result)
    /\ gpc' = "done"
    /\ UNCHANGED <<image_px, resized_result, wall, bg_removed_result, outsideBackground>>

NextBackground == RemoveBackground \/ AddBackground

SpecBackground == InitBackground /\ [][NextBackground]_vars

\* ------------------------------- style-transfer notebook: run_style_transfer
\* frames the source may deliver in one call
MaxFrames == 202
\* the inference of frame k takes (k % (pace + 1)) units, pace in 1..MaxPace
MaxPace == 2
Exceptions == {"KeyboardInterrupt", "RuntimeError", "Exception"}

outsideStyle == <<metricVars, evalVars, bertVars, asyncVars, loaderVars, potVars, timeVars,
                  benchVars, sharedVars, compareVars, backgroundVars, plateVars>>

\* run_style_transfer(source, flip, use_popup) is called: player = None; try:
InitStyle ==
    /\ PlateIdle /\ MetricIdle /\ EvalIdle /\ BertIdle /\ AsyncIdle /\ LoaderIdle /\ PotIdle /\ TimeIdle
    /\ BenchIdle /\ CompareIdle /\ BackgroundIdle
    /\ spc = "create"
    /\ args \in [use_popup : BOOLEAN, pace : 1..MaxPace]
    /\ player = NoPlayer
    /\ windows = NoWindows
    /\ exc = "none"
    /\ processing_times = <<>>
    /\ durations = <<>>
    /\ displayed = NoDisplay

\* np.mean(processing_times)
np_mean(times) == Divide(Num(SumRange(times, 1, Len(times)), 1), Num(Len(times), 1), TRUE)

\* faulty SlidingWindow: pop() instead of popleft(), the newest entry is dropped
SlidingWindowDropsNewest(times, elapsed_time) ==
    LET appended == Append(times, elapsed_time)
    IN  IF Len(appended) > 200 THEN SubSeq(appended, 1, Len(appended) - 1) ELSE appended

\* processing_times.append(stop_time - start_time);
\* if len(processing_times) > 200: processing_times.popleft()
SlidingWindow(times, elapsed_time) ==
    LET appended == Append(times, elapsed_time)
    IN  IF Len(appended) > 200 THEN Tail(appended) ELSE appended

\* an exception is raised inside the try block: by the VideoPlayer constructor
\* (player stays None), by start(), or by any statement of the loop
Raise(e) ==
    /\ spc \in {"create", "start", "next", "show"}
    /\ exc' = e
    /\ spc' = "except"
    /\ UNCHANGED <<args, player, windows, processing_times, durations, displayed,
                   outsideStyle>>

\* player = utils.VideoPlayer(source=source, flip=flip, fps=30, ...)
CreatePlayer ==
    /\ spc = "create"
    /\ player' = [player EXCEPT !.created = TRUE]
    /\ spc' = "start"
    /\ UNCHANGED <<args, windows, exc, processing_times, durations, displayed, outsideStyle>>

\* player.start(); if use_popup: cv2.namedWindow(...); processing_times = collections.deque()
StartPlayer ==
    /\ spc = "start"
    /\ player' = [player EXCEPT !.started = TRUE]
    /\ windows' = IF args.use_popup THEN [windows EXCEPT !.named = @ + 1] ELSE windows
    /\ processing_times' = <<>>
    /\ spc' = "next"
    /\ UNCHANGED <<args, exc, durations, displayed, outsideStyle>>

\* frame = player.next() is None: print("Source ended"); break
SourceEnded ==
    /\ spc = "next"
    /\ spc' = "finally"
    /\ UNCHANGED <<args, player, windows, exc, processing_times, durations, displayed,
                   outsideStyle>>

\* frame = player.next() is a frame: resize, preprocess, timed inference,
\* the sliding window, the mean, fps and putText
ProcessFrame ==
    LET elapsed_time == (Len(durations) + 1) % (args.pace + 1)
        times == SlidingWindow(processing_times, elapsed_time)
        processing_time_det == Times(np_mean(times), Num(1000, 1))
    IN  /\ spc = "next"
        /\ Len(durations) < MaxFrames
        /\ durations' = Append(durations, elapsed_time)
        /\ processing_times' = times
        /\ displayed' = [ms |-> processing_time_det,
                         fps |-> Divide(Num(1000, 1), processing_time_det, TRUE)]
        /\ spc' = "show"
        /\ UNCHANGED <<args, player, windows, exc, outsideStyle>>

\* if use_popup: cv2.imshow(title, result_image); key = cv2.waitKey(1);
\* if key == 27: break -- else: the encoded frame is displayed in the notebook
ShowFrame(key) ==
    /\ spc = "show"
    /\ windows' = [windows EXCEPT !.shown = IF args.use_popup THEN 1 ELSE @]
    /\ spc' = IF args.use_popup /\ key = 27 THEN "finally" ELSE "next"
    /\ UNCHANGED <<args, player, exc, processing_times, durations, displayed, outsideStyle>>

\* except KeyboardInterrupt: print("Interrupted"); except RuntimeError as e:
\* print(e); any other exception stays in flight through the finally block
Except ==
    /\ spc = "except"
    /\ exc' = IF exc \in {"KeyboardInterrupt", "RuntimeError"} THEN "none" ELSE exc
    /\ spc' = "finally"
    /\ UNCHANGED <<args, player, windows, processing_times, durations, displayed,
                   outsideStyle>>

\* faulty Finally: player.stop() and destroyAllWindows() follow the loop
\* instead of standing in a finally block, so they are skipped when an
\* exception stays in flight
FinallyAfterLoopOnly ==
    /\ spc = "finally"
    /\ player' = IF player.created /\ exc = "none"
                 THEN [player EXCEPT !.stops = @ + 1] ELSE player
    /\ windows' = IF args.use_popup /\ exc = "none"
                  THEN [windows EXCEPT !.destroyed = @ + 1] ELSE windows
    /\ spc' = IF exc = "none" THEN "returned" ELSE "propagated"
    /\ UNCHANGED <<args, exc, processing_times, durations, displayed, outsideStyle>>

\* finally: if player is not None: player.stop(); if use_popup:
\* cv2.destroyAllWindows(); then the function returns or the exception goes on
Finally ==
    /\ spc = "finally"
    /\ player' = IF player.created THEN [player EXCEPT !.stops = @ + 1] ELSE player
    /\ windows' = IF args.use_popup THEN [windows EXCEPT !.destroyed = @ + 1] ELSE windows
    /\ spc' = IF exc = "none" THEN "returned" ELSE "propagated"
    /\ UNCHANGED <<args, exc, processing_times, durations, displayed, outsideStyle>>

NextStyle ==
    \/ \E e \in Exceptions : Raise(e)
    \/ CreatePlayer
    \/ StartPlayer
    \/ SourceEnded
    \/ ProcessFrame
    \/ \E key \in {-1, 27} : ShowFrame(key)
    \/ Except
    \/ Finally

SpecStyle == InitStyle /\ [][NextStyle]_vars

\* ------------------------------- license-plate notebook: result_to_string
\* values of the flattened model output
MaxLen == 3
\* a float of the output, in halves: -2 is -1.0, 3 is 1.5
Floats == -3..3
\* the lines of match_dictionary.txt; a string is the sequence of its characters
match_dictionary == << <<"0">>, <<"<", "A", "n", "h", "u", "i", ">">> >>

\* int(idx): truncation towards zero
int(idx) == IF idx >= 0 THEN idx \div 2 ELSE -((-idx) \div 2)

\* list[i] of Python: a negative index counts from the end
getitem(list, i) == IF i >= 0 THEN list[i + 1] ELSE list[Len(list) + i + 1]

\* "".join(str_list)
RECURSIVE join(_)
join(list) == IF list = <<>> THEN <<>> ELSE Head(list) \o join(Tail(list))

outsidePlate == <<metricVars, evalVars, bertVars, asyncVars, loaderVars, potVars, timeVars,
                  benchVars, sharedVars, compareVars, backgroundVars, styleVars>>

\* result_to_string(result) is called: str_list = list()
InitPlate ==
    /\ MetricIdle /\ EvalIdle /\ BertIdle /\ AsyncIdle /\ LoaderIdle /\ PotIdle /\ TimeIdle
    /\ BenchIdle /\ CompareIdle /\ BackgroundIdle /\ StyleIdle
    /\ rpc = "loop"
    /\ \E n \in 0..MaxLen : result \in [1..n -> Floats]
    /\ ridx = 0
    /\ str_list = <<>>
    /\ ans = <<>>

\* faulty DecodeNext: the value -1 is skipped (continue) and the loop goes on
DecodeNextSkipsStop ==
    /\ rpc = "loop"
    /\ ridx < Len(result)
    /\ ridx' = ridx + 1
    /\ str_list' = IF result[ridx + 1] # -2
                   THEN Append(str_list, getitem(match_dictionary, int(result[ridx + 1])))
                   ELSE str_list
    /\ UNCHANGED <<rpc, result, ans, outsidePlate>>

\* one iteration of `for idx in result.flatten()`: if idx != -1:
\* str_list.append(match_dictionary[int(idx)]) else: break
DecodeNext ==
    /\ rpc = "loop"
    /\ ridx < Len(result)
    /\ ridx' = ridx + 1
    /\ IF result[ridx + 1] # -2
       THEN /\ str_list' = Append(str_list, getitem(match_dictionary, int(result[ridx + 1])))
            /\ rpc' = "loop"
       ELSE /\ rpc' = "join"
            /\ UNCHANGED str_list
    /\ UNCHANGED <<result, ans, outsidePlate>>

\* the values are exhausted
LoopEnds ==
    /\ rpc = "loop"
    /\ ridx = Len(result)
    /\ rpc' = "join"
    /\ UNCHANGED <<result, ridx, str_list, ans, outsidePlate>>

\* ans = "".join(str_list); return ans
ReturnAns ==
    /\ rpc = "join"
    /\ ans' = join(str_list)
    /\ rpc' = "returned"
    /\ UNCHANGED <<result, ridx, str_list, outsidePlate>>

NextPlate == DecodeNext \/ LoopEnds \/ ReturnAns

SpecPlate == InitPlate /\ [][NextPlate]_vars

\* ------------------------------------------------- claims on BinaryF1
\* C1: avg_value returns the score 0, and does not raise, whenever the
\* accumulated predicted-positive count y_pred is zero (a new or freshly reset
\* metric included).
C1_AvgValueZeroWithoutPredictedPositives ==
    (call.op = "avg_value" /\ metric.y_pred = 0) => call.ret = Num(0, 1)

\* C8: value returns the metric computed from the current accumulated sums:
\* whenever the sums define a score, every entry of value is that score.
C8_ValueComputedFromSums ==
    (call.op = "value" /\ AvgValue(metric).kind = "num")
        => \A k \in 1..Len(call.ret.values) : call.ret.values[k] = AvgValue(metric)

\* C9: after reset() the three counters are zero whatever came before, and the
\* updates made since the reset give the avg_value they give on a BinaryF1
\* that was newly constructed at that point.
C9_ResetEqualsNewlyConstructed ==
    was_reset =>
        /\ (updates = 0 =>
                metric.y_true = 0 /\ metric.y_pred = 0 /\ metric.correct_true = 0)
        /\ AvgValue(metric) = AvgValue(twin)

\* a reset of a metric with non-zero counters, then updates that define a score
C9_Witness ==
    /\ was_reset /\ dirty_reset /\ updates >= 1
    /\ AvgValue(metric).kind = "num"

\* C10: update(output, target) adds the foreground pixels of the label to
\* y_true, the pixels predicted foreground (sigmoid, rounded) to y_pred and the
\* pixels foreground in both to correct_true; name and attributes stay, and
\* the call returns no value. (numpy records the type of the three counters.)
C10_UpdateAddsCountsOnly ==
    call.op = "update" =>
        LET fg_label == {i \in Pixels : call.target[i] = 1}
            fg_pred == {i \in Pixels : round(sigmoid(call.output[i])) = 1}
        IN  /\ metric.y_true = call.before.y_true + Cardinality(fg_label)
            /\ metric.y_pred = call.before.y_pred + Cardinality(fg_pred)
            /\ metric.correct_true =
                    call.before.correct_true + Cardinality(fg_label \cap fg_pred)
            /\ metric.name = call.before.name
            /\ GetAttributes(metric) = GetAttributes(call.before)
            /\ call.ret = None

\* an update on non-zero counters with agreeing background and foreground pixels
C10_Witness ==
    /\ call.op = "update"
    /\ call.before.y_true > 0
    /\ \E i \in Pixels : call.target[i] = 0 /\ round(sigmoid(call.output[i])) = 0
    /\ \E i \in Pixels : call.target[i] = 1 /\ round(sigmoid(call.output[i])) = 1

C13_HeldModelUnchanged ==
    [][\A i \in DOMAIN heap : heap'[i] = heap[i]]_vars

\* the calls of the quantization cell, in the order of the workflow
WorkflowOrder ==
    <<"load_model", "create_pipeline", "run", "compress_model_weights", "save_model">>

\* C15: the quantization workflow moves through its stages in one order:
\* the model is loaded before the pipeline runs, weights are compressed only
\* on the model pipeline.run returned, the model is saved only after that,
\* and the quantized model is evaluated only after quantization completed.
C15_WorkflowStagesInOrder ==
    /\ Len(workflow) <= Len(WorkflowOrder)
    /\ \A k \in DOMAIN workflow :
            /\ workflow[k].op = WorkflowOrder[k]
            /\ workflow[k].op = "run" =>
                    \E j \in 1..(k - 1) : /\ workflow[j].op = "load_model"
                                          /\ workflow[j].ret = workflow[k].arg
            /\ workflow[k].op \in {"compress_model_weights", "save_model"} =>
                    \E j \in 1..(k - 1) : /\ workflow[j].op = "run"
                                          /\ workflow[j].ret = workflow[k].arg
    /\ epc \in {"evaluate_quantized", "quantized_pass", "printed"} =>
            /\ \E k \in DOMAIN workflow : /\ workflow[k].op = "run"
                                           /\ workflow[k].ret = compressed_model
            /\ heap[compressed_model].precision = "INT8"

\* the whole workflow has run and the quantized model has been evaluated
C15_Witness ==
    /\ epc = "printed"
    /\ Len(workflow) = Len(WorkflowOrder)
    /\ heap[compressed_model].compressed

\* C16: the quantized model is written under a name different from the
\* source model's structure file and weights file, so the quantization
\* workflow does not overwrite the source files.
C16_SourceFilesNotOverwritten ==
    qpc # "idle" =>
        /\ disk[model_config.model] = [precision |-> "FP16", compressed |-> FALSE]
        /\ disk[model_config.weights] = [precision |-> "FP16", compressed |-> FALSE]
        /\ compressed_model_path # model_config.model
        /\ with_suffix(compressed_model_path, "bin") # model_config.weights

\* the quantized model has been saved
C16_Witness ==
    /\ qpc = "saved"
    /\ compressed_model_path \in SavedPaths
    /\ disk[compressed_model_path].precision = "INT8"
    /\ disk[with_suffix(compressed_model_path, "bin")].compressed

\* ------------------------------------- claims on the BERT notebook
\* the pairs a pass of the model of precision p over the whole data source adds
AllPairs(p) == [i \in DOMAIN data_source |-> <<predictions[p][i], data_source[i]>>]

\* C3: validate feeds the metric exactly once for every item of the dataset
\* and computes the F1 score only after the last item has been added.
C3_EveryItemOnceThenCompute ==
    /\ \A i \in DOMAIN fed : fed[i] <= 1
    /\ \A k \in DOMAIN printed :
            /\ printed[k].batches = Len(data_source)
            /\ printed[k].f1 = F1Score(AllPairs(printed[k].precision))
    /\ bpc \in {"validate_quantized", "load_fp32", "benchmark"} =>
            \A i \in DOMAIN fed : fed[i] = 1

\* both validate calls have returned on a data source of several items
C3_Witness ==
    /\ Len(printed) = 2
    /\ Len(data_source) >= 2
    /\ \A i \in DOMAIN fed : fed[i] = 1

\* C4: run top to bottom, the score printed for the original model is
\* computed on the FP32 model and the one printed for the quantized model on
\* the quantized model: two different model variants.
C4_OriginalScoreOnFP32Model ==
    \A k \in DOMAIN printed :
        /\ printed[k].title = "original" => printed[k].precision = "FP32"
        /\ printed[k].title = "quantized" => printed[k].precision = "INT8"

Received == [k \in DOMAIN callbacks |-> callbacks[k].preprocess_meta]

\* C5: submitting N frames with start_async, each with its own user data,
\* and calling wait_all gives exactly N calls of completion_callback, each
\* with the user data submitted with its own frame, none twice, none dropped,
\* in every completion order.
C5_EachUserDataDeliveredOnce ==
    /\ \A k \in DOMAIN callbacks :
            /\ callbacks[k].preprocess_meta = preprocess(callbacks[k].output_of)
            /\ \A j \in DOMAIN callbacks : Received[j] = Received[k] => j = k
    /\ apc \in {"stop", "report", "done", "raised"} =>
            /\ Len(callbacks) = Len(framebuf)
            /\ \A i \in DOMAIN framebuf :
                    \E k \in DOMAIN callbacks : Received[k] = preprocess(framebuf[i])

\* wait_all has returned after the requests completed out of submission order
C5_Witness ==
    /\ apc = "stop"
    /\ Len(framebuf) >= 3
    /\ \E j, k \in DOMAIN callbacks : j < k /\ Received[j] > Received[k]

\* C6: wait_all returns only after the callback of every submitted request
\* has finished: when stop_time is read no request is in flight and no
\* callback is pending.
C6_StopTimeAfterAllCallbacks ==
    /\ apc \in {"stop", "report", "done", "raised"} =>
            /\ AllRequestsDone
            /\ returned = Len(framebuf)
    /\ at_stop.read => at_stop.in_flight = 0 /\ at_stop.returned = Len(framebuf)

\* stop_time has been read after several requests ran in parallel
C6_Witness ==
    /\ at_stop.read
    /\ at_stop.returned >= 2
    /\ Len(requests) >= 2

\* C20: while requests are in flight (from the first start_async to the
\* return of wait_all) neither the submitting loop nor completion_callback
\* changes the compiled model or the network of the segmentation model, and
\* the callback, working on its own deep copy, leaves the output tensor of
\* its request as inference wrote it.
C20_SharedModelReadOnlyInFlight ==
    [][(apc \in {"submit", "wait_all"} /\ frame_i > 1) =>
            /\ net' = net
            /\ compiled_model' = compiled_model
            /\ \A r \in DOMAIN requests :
                    requests[r].state = "callback" => tensors'[r] = tensors[r]]_vars

\* a callback has returned after postprocessing its copy while another
\* request is still in flight
C20_Witness ==
    /\ apc \in {"submit", "wait_all"}
    /\ \E k \in DOMAIN callbacks : callbacks[k].raw_outputs.overlay
    /\ \E r \in DOMAIN requests : requests[r].state \in {"running", "callback"}
    /\ \A r \in DOMAIN tensors : ~tensors[r].overlay

\* ------------------------------------- claims on KitsDataLoader
\* C7: a KitsDataLoader whose dataset would hold no sample fails fast: when
\* self.dataset is empty, construction or len() raises.
C7_EmptyDatasetFailsFast ==
    (loader.state = "constructed" /\ loader.dataset = <<>> /\ lcall.op = "len")
        => lcall.raised

\* the item data_loader[index] of a loader: annotation index, case and slice
ItemOf(l, index) == <<index, l.dataset[index + 1][1], l.dataset[index + 1][2]>>

\* C18: the data source presents its samples in a deterministic order: for a
\* fixed directory, two loaders (or two passes over one loader) return the
\* same item for every index, and the length does not change.
C18_SameItemsForEveryLoader ==
    /\ loader.state = "constructed" =>
            loader.dataset = ValMasks(Ascending(dirs["BASEDIR"]))
    /\ (loader.state = "constructed" /\ previous.state = "constructed") =>
            /\ Len(loader.dataset) = Len(previous.dataset)
            /\ \A index \in 0..(Len(loader.dataset) - 1) :
                    ItemOf(loader, index) = ItemOf(previous, index)
            /\ lcall.op = "len" => lcall.ret = <<Len(previous.dataset)>>
            /\ lcall.op = "getitem" => lcall.ret = ItemOf(previous, lcall.index)

\* an item beyond the first has been read from the second of two loaders
\* over a directory of several validation masks
C18_Witness ==
    /\ loader.state = "constructed"
    /\ previous.state = "constructed"
    /\ Len(loader.dataset) >= 2
    /\ lcall.op = "getitem"
    /\ lcall.index >= 1

\* C19: KitsDataLoader(basedir) builds its dataset from the mask files under
\* the directory passed as basedir, independently of any module-level variable.
C19_DatasetFromBasedirArgument ==
    loader.state = "constructed" =>
        loader.dataset = ValMasks(Ascending(dirs[loader.basedir]))

\* ------------------------------------- claims on the synthetic dataset
\* C11: for 4 samples, 2 all-zero and 2 with exactly 100 foreground pixels,
\* and a model that returns the ground truth, accumulating all 4 samples and
\* reading the average gives the perfect score F1 = 1.0.
C11_PerfectScoreOnGroundTruth ==
    epc = "synthetic_done" => call.ret = Num(1, 1)

\* the average has been read with all 200 foreground pixels accumulated
C11_Witness ==
    /\ epc = "synthetic_done"
    /\ call.op = "avg_value"
    /\ metric.y_true = 200 /\ metric.y_pred = 200 /\ metric.correct_true = 200

\* ------------------------------------- claims on the timing comparison
\* C21: each of the two timed regions includes the preprocessing of the
\* image, and preprocessing runs once per inference, num_images times, in
\* both regions.
C21_SamePreprocessingInBothRegions ==
    \A k \in DOMAIN measured :
        /\ measured[k].inference = num_images
        /\ measured[k].preprocess = num_images

\* ------------------------------------- claims on the background replacement
\* C22: every pixel of new_image where the segmentation result is 1 equals
\* the pixel of the original image, and every pixel where the result is 0
\* equals the pixel of the resized background image.
C22_NewImageFromImageOrBackground ==
    gpc = "done" =>
        /\ resized_result = 1 => new_image = image_px
        /\ resized_result = 0 => new_image = wall

\* ------------------------------------- claims on the frame-loading loop
\* C23: the frame-loading loop appends every path of image_paths exactly
\* once, in sorted order: when it has ended framebuf holds the frames of
\* image_paths, so a request is started for every image of the case.
C23_EveryImageLoadedOnce ==
    apc \notin {"idle", "load_frames"} => framebuf = image_paths

\* ------------------------------------- further claims on BinaryF1
\* C24: avg_value returns a finite score, and does not raise, in every
\* reachable counter state with y_pred > 0: also when y_true = 0, and when
\* correct_true = 0 with y_true > 0.
C24_AvgValueFiniteWithPredictedPositives ==
    (call.op = "avg_value" /\ metric.y_pred > 0) => call.ret.kind = "num"

\* C25: in every state reached by update and reset calls with binary label
\* masks, 0 <= correct_true <= y_true and correct_true <= y_pred; between two
\* resets none of the three counters decreases; and the average score, when
\* it is defined, lies between 0 and 1.
C25_CountersOrderedAndNonDecreasing ==
    /\ [](/\ 0 <= metric.correct_true
          /\ metric.correct_true <= metric.y_true
          /\ metric.correct_true <= metric.y_pred
          /\ AvgValue(metric).kind = "num" =>
                (0 <= AvgValue(metric).n /\ AvgValue(metric).n <= AvgValue(metric).d))
    /\ [][call'.op # "reset" =>
            /\ metric'.y_true >= metric.y_true
            /\ metric'.y_pred >= metric.y_pred
            /\ metric'.correct_true >= metric.correct_true]_vars

\* after two updates some but not all foreground pixels were predicted, and
\* avg_value has returned a score strictly between 0 and 1
C25_Witness ==
    /\ updates = MaxUpdates
    /\ 0 < metric.correct_true
    /\ metric.correct_true < metric.y_true
    /\ metric.correct_true < metric.y_pred
    /\ call.op = "avg_value"
    /\ call.ret.kind = "num"
    /\ 0 < call.ret.n /\ call.ret.n < call.ret.d

\* ------------------------------------- claims on run_style_transfer
\* the last n entries of a sequence, in order
LastEntries(seq, n) ==
    IF Len(seq) <= n THEN seq ELSE SubSeq(seq, Len(seq) - n + 1, Len(seq))

\* C26: after every iteration of the loop processing_times holds at most 200
\* entries, they are the inference durations of the most recent frames in
\* arrival order, and the displayed inference time is the mean of exactly
\* these entries (in milliseconds).
C26_WindowOfLast200Durations ==
    Len(durations) > 0 =>
        /\ Len(processing_times) <= 200
        /\ processing_times = LastEntries(durations, 200)
        /\ displayed.ms = Times(np_mean(LastEntries(durations, 200)), Num(1000, 1))

\* more than 200 frames were processed: the oldest durations have been dropped
C26_Witness ==
    /\ spc = "show"
    /\ Len(durations) = MaxFrames
    /\ Len(processing_times) = 200
    /\ processing_times[1] = durations[MaxFrames - 199]
    /\ displayed.ms.kind = "num"

\* C27: when the function has returned or let an exception go on, on every
\* exit path (source ended, ESC in popup mode, KeyboardInterrupt,
\* RuntimeError, any other exception), player.stop() was called exactly once
\* if the player was created and not at all if it was not, and
\* cv2.destroyAllWindows was called exactly when use_popup is true; neither
\* is called before the exit.
C27_PlayerStoppedOnceOnEveryExit ==
    IF spc \in {"returned", "propagated"}
    THEN /\ player.stops = (IF player.created THEN 1 ELSE 0)
         /\ windows.destroyed = (IF args.use_popup THEN 1 ELSE 0)
    ELSE player.stops = 0 /\ windows.destroyed = 0

\* an exception that no except clause catches left the loop of a popup run:
\* the player was stopped once and the windows were destroyed
C27_Witness ==
    /\ spc = "propagated"
    /\ exc = "Exception"
    /\ Len(durations) > 0
    /\ player.started
    /\ player.stops = 1
    /\ args.use_popup
    /\ windows.destroyed = 1

\* ------------------------------------- claims on result_to_string
\* the values before the first -1 (all of them when there is none)
BeforeFirstStop(values) ==
    LET stops == {i \in DOMAIN values : values[i] = -2}
        first == IF stops = {} THEN Len(values) + 1
                 ELSE CHOOSE i \in stops : \A j \in stops : i <= j
    IN  SubSeq(values, 1, first - 1)

\* C28: result_to_string returns the concatenation of match_dictionary[int(v)]
\* for the values v of the flattened output, in order, up to but not
\* including the first value equal to -1; later values never contribute, and
\* without a -1 every value is decoded.
C28_DecodedUpToFirstStop ==
    rpc = "returned" =>
        ans = join([i \in DOMAIN BeforeFirstStop(result) |->
                        getitem(match_dictionary, int(BeforeFirstStop(result)[i]))])

\* a -1 stands between decodable values: only the values before it are in ans
C28_Witness ==
    /\ rpc = "returned"
    /\ Len(result) = MaxLen
    /\ result[1] # -2
    /\ result[2] = -2
    /\ result[MaxLen] # -2
    /\ ans = getitem(match_dictionary, int(result[1]))

====
